---- MODULE Spec2Model ----
(***************************************************************************)
(* A model of the portfolio tracker: the ledger session of portt_main.py   *)
(* (start-up load, price refresh, the menu's handlers), the metrics of     *)
(* computations.py and the key manager of passencrypt.py.                  *)
(*                                                                         *)
(* Numbers.  Python's numbers (int and float) are modelled as exact        *)
(* rationals [n |-> numerator, d |-> denominator > 0] in lowest terms.     *)
(* The binary rounding of IEEE-754 doubles is outside the model: sums,     *)
(* products and quotients are the exact ones.  round(x, 2) is modelled by  *)
(* what it does (round half to even at two decimals).                      *)
(***************************************************************************)
EXTENDS Integers, Sequences, FiniteSets, TLC

VARIABLES
    pc,            \* where the process is: "load", "prices", "home", "menu", "exited", "crashed";
                   \* "call" and "returned" around a single call of a metrics function
    portfolio,     \* models.portfolio: the list of position dicts
    transactions,  \* models.transactions: the list of transaction dicts
    preferences,   \* userdata[1]: the preferences dict (its "order" entry)
    steps,         \* number of state-changing menu handlers run in this session
    kpc,           \* ensure_master_key's position
    keyring,       \* the OS key store's entry for the app (a string or None)
    keyfile,       \* ~/.portt_master.key: its bytes, or None when absent
    master_key,    \* the value ensure_master_key returns (MASTER_KEY)
    runs,          \* number of process starts of the key manager so far
    generated,     \* history: the keys generate_fernet_key has returned, oldest first
    statefile,     \* ~/.portt_state.enc: what the file holds
    shown          \* what the process has printed since it started (followed only in
                   \* the specifications of persistence and of the metrics)

vars == <<pc, portfolio, transactions, preferences, steps,
          kpc, keyring, keyfile, master_key, runs, generated, statefile, shown>>

sessionVars == <<pc, portfolio, transactions, preferences, steps>>
keyVars == <<kpc, keyring, keyfile, master_key, runs, generated>>
fileVars == <<statefile, shown>>

None == "None"

-----------------------------------------------------------------------------
(* Bounds *)

\* state-changing menu handlers (transaction, performance report, import) per session
MaxSteps == 2
\* process starts of the key manager
MaxRuns == 2
\* length of a sequence of same-ticker buys
MaxBuys == 3

-----------------------------------------------------------------------------
(* Exact rational arithmetic *)

Abs(x) == IF x < 0 THEN -x ELSE x

RECURSIVE GCD(_, _)
GCD(a, b) == IF b = 0 THEN a ELSE GCD(b, a % b)

Frac(n, d) ==
    LET g == GCD(Abs(n), Abs(d))
        s == IF d < 0 THEN -1 ELSE 1
    IN  [n |-> (s * n) \div g, d |-> (s * d) \div g]

R(n) == [n |-> n, d |-> 1]

\* sums and differences over the least common denominator, which keeps the
\* intermediate integers small
RAdd(a, b) ==
    LET g == GCD(a.d, b.d)
    IN  Frac(a.n * (b.d \div g) + b.n * (a.d \div g), (a.d \div g) * b.d)
RSub(a, b) ==
    LET g == GCD(a.d, b.d)
    IN  Frac(a.n * (b.d \div g) - b.n * (a.d \div g), (a.d \div g) * b.d)
RMul(a, b) == Frac(a.n * b.n, a.d * b.d)
\* defined for b # 0 only: Python raises ZeroDivisionError otherwise
RDiv(a, b) == Frac(a.n * b.d, a.d * b.n)
RLt(a, b) == a.n * b.d < b.n * a.d
RLe(a, b) == a.n * b.d <= b.n * a.d
RIsZero(a) == a.n = 0
RPos(a) == a.n > 0

\* round(x, 2): the nearest multiple of 1/100, ties to the even one
Round2(x) ==
    LET s == x.n * 100
        q == s \div x.d
        r == s - q * x.d
        up == \/ 2 * r > x.d
              \/ (2 * r = x.d /\ q % 2 = 1)
    IN  Frac(IF up THEN q + 1 ELSE q, 100)

-----------------------------------------------------------------------------
(* models.py: the data the process starts with *)

Position(t, q, b, c, r, s) ==
    [ticker |-> t, quantity |-> q, buy_price |-> b, current_price |-> c,
     risk |-> r, status |-> s]

Transaction(dt, t, ty, q, p) ==
    [date |-> dt, ticker |-> t, type |-> ty, quantity |-> q, price |-> p]

\* the sample dicts carry no "status" key: None stands for the absent key
SamplePortfolio ==
    << Position("AAPL", R(10), R(150), R(170), "high", None),
       Position("TSLA", R(3), R(700), R(650), "high", None),
       Position("BTC", Frac(2, 100), R(30000), R(45000), "high", None) >>

SampleTransactions ==
    << Transaction("2025-03-01", "AAPL", "buy", R(5), R(145)),
       Transaction("2025-03-10", "TSLA", "buy", R(3), R(700)) >>

SamplePreferences == [layout |-> "1", order |-> "HtoLrisk or LtoHrisk"]

\* str.upper() and str.lower() on the strings the model enters
UpperMap ==
    ("aapl" :> "AAPL") @@ ("msft" :> "MSFT") @@ (" msft " :> " MSFT ")
        @@ ("high" :> "HIGH") @@ ("low" :> "LOW")
Upper(s) == IF s \in DOMAIN UpperMap THEN UpperMap[s] ELSE s

LowerMap == ("Buy" :> "buy") @@ ("SELL" :> "sell") @@ ("YES" :> "yes") @@ ("No" :> "no")
Lower(s) == IF s \in DOMAIN LowerMap THEN LowerMap[s] ELSE s

\* str.strip()
StripMap == (" MSFT " :> "MSFT") @@ (" msft " :> "msft")
Strip(s) == IF s \in DOMAIN StripMap THEN StripMap[s] ELSE s

-----------------------------------------------------------------------------
(* computations.py: per-position metrics *)

percent_return(item) ==
    IF RIsZero(item.buy_price) THEN R(0)
    ELSE RMul(RDiv(RSub(item.current_price, item.buy_price), item.buy_price), R(100))

market_value(item) == RMul(item.quantity, item.current_price)

unrealized_pl(item) == RMul(RSub(item.current_price, item.buy_price), item.quantity)

RECURSIVE SumValues(_)
SumValues(pl) ==
    IF pl = << >> THEN R(0) ELSE RAdd(market_value(Head(pl)), SumValues(Tail(pl)))

\* mutant of InsertDesc: an element goes before the elements of equal key
RECURSIVE InsertDescBeforeEqual(_, _, _)
InsertDescBeforeEqual(x, order, keys) ==
    IF order = << >> THEN << x >>
    ELSE IF RLe(keys[Head(order)], keys[x])
         THEN << x >> \o order
         ELSE << Head(order) >> \o InsertDescBeforeEqual(x, Tail(order), keys)

\* sorted(..., reverse=True) on a list whose i-th element has key keys[i]: the
\* indices in descending key order, equal keys keeping their input order
RECURSIVE InsertDesc(_, _, _)
InsertDesc(x, order, keys) ==
    IF order = << >> THEN << x >>
    ELSE IF RLt(keys[Head(order)], keys[x])
         THEN << x >> \o order
         ELSE << Head(order) >> \o InsertDesc(x, Tail(order), keys)

RECURSIVE OrderDesc(_, _)
OrderDesc(n, keys) ==
    IF n = 0 THEN << >> ELSE InsertDesc(n, OrderDesc(n - 1, keys), keys)

SortedDesc(seq, keys) ==
    LET order == OrderDesc(Len(seq), keys)
    IN  [i \in 1..Len(seq) |-> seq[order[i]]]

\* mutant of AssignStatus: the list is sorted in place (list.sort) before the loop
AssignStatusSortingInPlace(pl) ==
    LET sorted == SortedDesc(pl, [i \in 1..Len(pl) |-> percent_return(pl[i])])
    IN  [i \in 1..Len(sorted) |->
            [sorted[i] EXCEPT !.status =
                IF RPos(percent_return(sorted[i])) THEN "profit" ELSE "loss"]]

\* the loop at the end of recalculate_portfolio: it stores "status" in each asset
AssignStatus(pl) ==
    [i \in 1..Len(pl) |->
        [pl[i] EXCEPT !.status =
            IF RPos(percent_return(pl[i])) THEN "profit" ELSE "loss"]]

\* recalculate_portfolio: the metrics it returns, and portfolio_list as the
\* call leaves it (the assets are mutated in place)
recalculate_portfolio(pl) ==
    [total_value |-> SumValues(pl),
     portfolio_list |-> AssignStatus(pl)]

\* refresh_portfolio_metrics: the portfolio after recalculate_portfolio(portfolio, preferences)
refresh_portfolio_metrics(pl) == recalculate_portfolio(pl).portfolio_list

-----------------------------------------------------------------------------
(* computations.py: the market data gateway and the price refresh *)

\* what yf.Ticker(t).history(period="1d") can do: raise, return an empty frame,
\* or return a frame whose last close is a number
GatewayKinds == {"error", "empty", "close"}

LastClose(ticker) ==
    CASE ticker = "AAPL" -> Frac(170126, 1000)
      [] ticker = "TSLA" -> Frac(655555, 1000)
      [] ticker = "BTC" -> R(0)
      [] OTHER -> Frac(161005, 1000)

\* the gateway's answer of the given kind for a ticker
Gateway(ticker, kind) ==
    [kind |-> kind,
     close |-> IF kind = "close" THEN LastClose(ticker) ELSE R(0)]

\* get_live_price: [ok |-> FALSE] stands for the None it returns
get_live_price(resp) ==
    IF resp.kind = "error" THEN [ok |-> FALSE, price |-> R(0)]
    ELSE IF resp.kind = "empty" THEN [ok |-> FALSE, price |-> R(0)]
    ELSE IF resp.close.n <= 0 THEN [ok |-> FALSE, price |-> R(0)]
    ELSE [ok |-> TRUE, price |-> resp.close]

\* mutant of update_all_current_prices: the loop ends at the first asset whose price
\* could not be fetched
update_prices_until_failure(pl, kinds) ==
    [i \in 1..Len(pl) |->
        IF \A j \in 1..i : get_live_price(Gateway(pl[j].ticker, kinds[j])).ok
        THEN [pl[i] EXCEPT !.current_price =
                    Round2(get_live_price(Gateway(pl[i].ticker, kinds[i])).price)]
        ELSE pl[i]]

\* kinds[i] is the kind of answer the gateway gives to the call for the i-th asset
update_all_current_prices(pl, kinds) ==
    [i \in 1..Len(pl) |->
        LET new_price == get_live_price(Gateway(pl[i].ticker, kinds[i]))
        IN  IF new_price.ok
            THEN [pl[i] EXCEPT !.current_price = Round2(new_price.price)]
            ELSE pl[i]]

ResponseVectors(pl) == [1..Len(pl) -> GatewayKinds]

-----------------------------------------------------------------------------
(* portt_main.py: make_transaction *)

\* mutant of FindAsset: the search starts at the second asset
FindAssetAfterFirst(pl, ticker) ==
    IF \E i \in 2..Len(pl) : pl[i].ticker = ticker
    THEN CHOOSE i \in 2..Len(pl) :
            /\ pl[i].ticker = ticker
            /\ \A j \in 2..(i - 1) : pl[j].ticker # ticker
    ELSE 0

\* index of the first asset with this ticker, 0 when there is none
\* (the loop "for asset in portfolio: if asset["ticker"] == ticker: ... break")
FindAsset(pl, ticker) ==
    IF \E i \in 1..Len(pl) : pl[i].ticker = ticker
    THEN CHOOSE i \in 1..Len(pl) :
            /\ pl[i].ticker = ticker
            /\ \A j \in 1..(i - 1) : pl[j].ticker # ticker
    ELSE 0

RemoveAt(pl, i) == [j \in 1..(Len(pl) - 1) |-> IF j < i THEN pl[j] ELSE pl[j + 1]]

\* mutant of BuyExisting: the new average is the plain mean of the old average and the price
BuyExistingPlainMean(asset, quantity, price) ==
    [asset EXCEPT !.buy_price = RDiv(RAdd(asset.buy_price, price), R(2)),
                  !.quantity = RAdd(asset.quantity, quantity)]

\* the buy branch on an existing asset
BuyExisting(asset, quantity, price) ==
    LET total_qty == RAdd(asset.quantity, quantity)
        total_cost == RAdd(RMul(asset.quantity, asset.buy_price), RMul(quantity, price))
    IN  [asset EXCEPT !.buy_price = RDiv(total_cost, total_qty),
                      !.quantity = total_qty]

\* mutant of SellExisting: the sell also spreads the old cost over what is left
SellExistingRecomputingAverage(asset, quantity) ==
    LET left == RSub(asset.quantity, quantity)
    IN  [asset EXCEPT !.quantity = left,
                      !.buy_price = IF RIsZero(left) THEN asset.buy_price
                                    ELSE RDiv(RMul(asset.quantity, asset.buy_price), left)]

\* the sell branch on an existing asset, before the removal test
SellExisting(asset, quantity) ==
    [asset EXCEPT !.quantity = RSub(asset.quantity, quantity)]

\* the asset appended when no asset has the ticker: no "status" key yet
NewAsset(ticker, quantity, price) ==
    Position(ticker, quantity, price, price, "OPTIMAL", None)

\* "Update portfolio": raised is TRUE when total_cost / total_qty divides by zero,
\* which happens before anything is stored in the asset
UpdatePortfolio(pl, ticker, trans_type, quantity, price) ==
    LET i == FindAsset(pl, ticker)
    IN  IF i # 0
        THEN IF trans_type = "buy"
             THEN IF RIsZero(RAdd(pl[i].quantity, quantity))
                  THEN [raised |-> TRUE, portfolio |-> pl]
                  ELSE [raised |-> FALSE,
                        portfolio |-> [pl EXCEPT ![i] = BuyExisting(pl[i], quantity, price)]]
             ELSE IF trans_type = "sell"
             THEN LET sold == SellExisting(pl[i], quantity)
                  IN  IF sold.quantity.n <= 0
                      THEN [raised |-> FALSE, portfolio |-> RemoveAt(pl, i)]
                      ELSE [raised |-> FALSE, portfolio |-> [pl EXCEPT ![i] = sold]]
             ELSE [raised |-> FALSE, portfolio |-> pl]
        ELSE [raised |-> FALSE,
              portfolio |-> Append(pl, NewAsset(ticker, quantity, price))]

\* mutant of RecordTransaction: the new entry is put first (transactions.insert(0, ...))
RecordTransactionAtFront(log, new_trans) == << new_trans >> \o log

\* transactions.append(new_trans)
RecordTransaction(log, new_trans) == Append(log, new_trans)

\* what the user types at the prompts
DateInputs == {"2025-04-02"}
TickerInputs == {"aapl", "MSFT"}
TypeInputs == {"Buy", "sell"}
QuantityInputs == {R(-10), R(5), R(10)}
PriceInputs == {R(-1), R(160)}
ConfirmInputs == {"YES", "No"}

make_transaction(date, ticker_in, type_in, quantity, price, confirm) ==
    /\ pc = "menu"
    /\ LET ticker == Upper(ticker_in)
           trans_type == Lower(type_in)
       IN  IF Lower(confirm) # "yes"
           THEN UNCHANGED <<pc, portfolio, transactions, preferences, steps>>
           ELSE LET new_trans == Transaction(date, ticker, trans_type, quantity, price)
                    upd == UpdatePortfolio(portfolio, ticker, trans_type, quantity, price)
                IN  /\ transactions' = RecordTransaction(transactions, new_trans)
                    /\ steps' = steps + 1
                    /\ IF upd.raised
                       THEN /\ pc' = "crashed"
                            /\ portfolio' = portfolio
                       ELSE /\ pc' = pc
                            /\ portfolio' = refresh_portfolio_metrics(upd.portfolio)
                    /\ UNCHANGED preferences
    /\ UNCHANGED keyVars
    /\ UNCHANGED fileVars

\* main_menu, choice 1
MakeTransaction ==
    /\ steps < MaxSteps
    /\ \E date \in DateInputs, ticker_in \in TickerInputs, type_in \in TypeInputs,
          quantity \in QuantityInputs, price \in PriceInputs, confirm \in ConfirmInputs :
            make_transaction(date, ticker_in, type_in, quantity, price, confirm)

-----------------------------------------------------------------------------
(* portt_main.py: start-up, the menu's other handlers *)

\* a saved snapshot: the dict json.loads returns.  A member may be missing.
SavedPortfolio ==
    << Position("MSFT", R(4), R(100), R(110), "OPTIMAL", "profit") >>

SavedTransactions ==
    << Transaction("2025-02-03", "MSFT", "buy", R(4), R(100)) >>

SavedPreferences == [layout |-> "1", order |-> "HtoLrisk"]

Snapshots ==
    { [portfolio |-> SavedPortfolio, transactions |-> SavedTransactions,
       userdata |-> SavedPreferences] }

\* x[:] = data.get(member, x) for the three members
ApplySnapshot(data, pl, log, prefs) ==
    [portfolio |-> IF "portfolio" \in DOMAIN data THEN data.portfolio ELSE pl,
     transactions |-> IF "transactions" \in DOMAIN data THEN data.transactions ELSE log,
     preferences |-> IF "userdata" \in DOMAIN data THEN data.userdata ELSE prefs]

\* what passencrypt.load_state() returns: a dict, or None
EncryptedLoadResults ==
    {[kind |-> "none"]} \cup {[kind |-> "data", data |-> d] : d \in Snapshots}

\* userdata.json: absent, not JSON, or a saved dict
JsonFiles ==
    {[kind |-> "absent"], [kind |-> "malformed"]}
        \cup {[kind |-> "data", data |-> d] : d \in Snapshots}

\* the load at the top of __main__
StartupLoad(enc, json) ==
    /\ pc = "load"
    /\ LET src == IF enc.kind = "data" THEN enc ELSE json
       IN  IF src.kind = "data"
           THEN LET got == ApplySnapshot(src.data, portfolio, transactions, preferences)
                IN  /\ portfolio' = refresh_portfolio_metrics(got.portfolio)
                    /\ transactions' = got.transactions
                    /\ preferences' = got.preferences
           ELSE UNCHANGED <<portfolio, transactions, preferences>>
    /\ pc' = "prices"
    /\ UNCHANGED steps
    /\ UNCHANGED keyVars
    /\ UNCHANGED fileVars

\* "Fetch live prices on startup"
StartupPrices(resp) ==
    /\ pc = "prices"
    /\ portfolio' = refresh_portfolio_metrics(update_all_current_prices(portfolio, resp))
    /\ pc' = "home"
    /\ UNCHANGED <<transactions, preferences, steps>>
    /\ UNCHANGED keyVars
    /\ UNCHANGED fileVars

\* home_page: it stores the nickname and password in userdata[0], which the model leaves out
home_page ==
    /\ pc = "home"
    /\ pc' = "menu"
    /\ UNCHANGED <<portfolio, transactions, preferences, steps>>
    /\ UNCHANGED keyVars
    /\ UNCHANGED fileVars

port_perf(resp) ==
    /\ pc = "menu"
    /\ steps < MaxSteps
    /\ portfolio' = refresh_portfolio_metrics(update_all_current_prices(portfolio, resp))
    /\ steps' = steps + 1
    /\ UNCHANGED <<pc, transactions, preferences>>
    /\ UNCHANGED keyVars
    /\ UNCHANGED fileVars

\* a CSV cell read with float(): ok is FALSE when the cell is missing, empty or no number
Cell(v) == [ok |-> TRUE, value |-> v]
NoCell == [ok |-> FALSE, value |-> R(0)]

\* parse_float(row, candidates, default=0.0)
parse_float(cell) == IF cell.ok THEN cell.value ELSE R(0)

PortfolioRow(t, q, b, c) == [ticker |-> t, quantity |-> q, buy_price |-> b, current_price |-> c]

\* the portfolio CSV files the model imports: None-like "absent", or the rows
PortfolioCsvFiles ==
    { [kind |-> "absent"],
      [kind |-> "rows", rows |-> << >>],
      [kind |-> "rows",
       rows |-> << PortfolioRow("", Cell(R(1)), Cell(R(1)), Cell(R(1))),
                   PortfolioRow(" msft ", Cell(R(4)), Cell(R(100)), NoCell) >>] }

RECURSIVE ParsePortfolioRows(_)
ParsePortfolioRows(rows) ==
    IF rows = << >> THEN << >>
    ELSE LET row == Head(rows)
             ticker == Upper(Strip(row.ticker))
         IN  IF ticker = ""
             THEN ParsePortfolioRows(Tail(rows))
             ELSE << Position(ticker, parse_float(row.quantity), parse_float(row.buy_price),
                              parse_float(row.current_price), "OPTIMAL", "") >>
                  \o ParsePortfolioRows(Tail(rows))

\* import_portfolio_csv: the portfolio it leaves
import_portfolio_csv(pl, file) ==
    IF file.kind = "absent" THEN pl
    ELSE LET new_portfolio == ParsePortfolioRows(file.rows)
         IN  IF new_portfolio = << >> THEN pl
             ELSE refresh_portfolio_metrics(new_portfolio)

TransactionRow(dt, t, ty, q, p) == [date |-> dt, ticker |-> t, type |-> ty, quantity |-> q, price |-> p]

TransactionCsvFiles ==
    { [kind |-> "absent"],
      [kind |-> "rows", rows |-> << >>],
      [kind |-> "rows",
       rows |-> << TransactionRow("2025-05-06", "msft", "buy", Cell(R(4)), Cell(R(100))) >>],
      [kind |-> "rows",
       rows |-> << TransactionRow("2025-05-06", "msft", "buy", NoCell, Cell(R(100))) >>] }

\* float(row["quantity"]) or float(row["price"]) raises on some row
TransactionRowsRaise(rows) ==
    \E i \in 1..Len(rows) : ~rows[i].quantity.ok \/ ~rows[i].price.ok

ParseTransactionRows(rows) ==
    [i \in 1..Len(rows) |->
        Transaction(rows[i].date, rows[i].ticker, rows[i].type,
                    rows[i].quantity.value, rows[i].price.value)]

\* import_transactions_csv: the log it leaves, and whether it raised
import_transactions_csv(log, file) ==
    IF file.kind = "absent" THEN [raised |-> FALSE, transactions |-> log]
    ELSE IF TransactionRowsRaise(file.rows) THEN [raised |-> TRUE, transactions |-> log]
    ELSE [raised |-> FALSE, transactions |-> ParseTransactionRows(file.rows)]

\* main_menu, choice 6: both imports, unless a global command at the second prompt
\* ends the handler after the first
MenuImport(pfile, tfile, second) ==
    /\ pc = "menu"
    /\ steps < MaxSteps
    /\ steps' = steps + 1
    /\ portfolio' = import_portfolio_csv(portfolio, pfile)
    /\ IF second
       THEN LET r == import_transactions_csv(transactions, tfile)
            IN  /\ transactions' = r.transactions
                /\ pc' = IF r.raised THEN "crashed" ELSE pc
       ELSE UNCHANGED <<transactions, pc>>
    /\ UNCHANGED preferences
    /\ UNCHANGED keyVars
    /\ UNCHANGED fileVars

MenuImportStep ==
    \E pfile \in PortfolioCsvFiles, tfile \in TransactionCsvFiles, second \in BOOLEAN :
        MenuImport(pfile, tfile, second)

\* handlers that only read and print: the recap, the summary, the exports, the charts
monthly_recap == pc = "menu" /\ UNCHANGED vars
summary_view == pc = "menu" /\ UNCHANGED vars
export_csv == pc = "menu" /\ UNCHANGED vars
charts == pc = "menu" /\ UNCHANGED vars

\* choice 0 or /exit: save and leave
Exit ==
    /\ pc \in {"home", "menu"}
    /\ pc' = "exited"
    /\ UNCHANGED <<portfolio, transactions, preferences, steps>>
    /\ UNCHANGED keyVars
    /\ UNCHANGED fileVars

-----------------------------------------------------------------------------
(* The session *)

KeyIdle ==
    /\ kpc = "DONE"
    /\ keyring = None
    /\ keyfile = None
    /\ master_key = None
    /\ runs = 0
    /\ generated = << >>

\* no state file, nothing printed
FileIdle ==
    /\ statefile = [kind |-> "absent"]
    /\ shown = {}

Init ==
    /\ pc = "load"
    /\ portfolio = SamplePortfolio
    /\ transactions = SampleTransactions
    /\ preferences = SamplePreferences
    /\ steps = 0
    /\ KeyIdle
    /\ FileIdle

Next ==
    \/ \E enc \in EncryptedLoadResults, json \in JsonFiles : StartupLoad(enc, json)
    \/ \E resp \in ResponseVectors(portfolio) : StartupPrices(resp)
    \/ home_page
    \/ MakeTransaction
    \/ \E resp \in ResponseVectors(portfolio) : port_perf(resp)
    \/ MenuImportStep
    \/ monthly_recap
    \/ summary_view
    \/ export_csv
    \/ charts
    \/ Exit

Spec == Init /\ [][Next]_vars

-----------------------------------------------------------------------------
(* passencrypt.py: the key manager *)

\* keys a store can hold before the first run, and keys generate_fernet_key can produce
StoredKeys == {"K1", "K2"}
NewKeys == {"K3", "K4", "K5"}

\* base64.urlsafe_b64encode(key).decode() and its inverse on the strings of the model
B64Map ==
    ("K1" :> "b64:K1") @@ ("K2" :> "b64:K2") @@ ("K3" :> "b64:K3") @@ ("K4" :> "b64:K4")
        @@ ("K5" :> "b64:K5")
B64Encode(key) == B64Map[key]
B64Decodable(str) == \E k \in DOMAIN B64Map : B64Map[k] = str
B64Decode(str) == CHOOSE k \in DOMAIN B64Map : B64Map[k] = str

\* what the key store can hold at the first start: nothing, an empty string,
\* a string that does not decode, or an encoded key
KeyringEntries == {None, "", "not-base64"} \cup {B64Encode(k) : k \in StoredKeys}

\* what the key file can hold at the first start: absent, empty, or a key
KeyfileContents == {None, ""} \cup StoredKeys

\* load_key_from_keyring: raises is TRUE when keyring.get_password raises
load_key_from_keyring(entry, raises) ==
    IF raises THEN None
    ELSE IF entry = None \/ entry = "" THEN None
    ELSE IF ~B64Decodable(entry) THEN None
    ELSE B64Decode(entry)

\* "if key:" on what a loader returned
IsKey(key) == key # None /\ key # ""

\* 1) Try keyring
TrySecretStore(raises) ==
    /\ kpc = "TRY_SECRET_STORE"
    /\ LET key == load_key_from_keyring(keyring, raises)
       IN  IF IsKey(key)
           THEN /\ master_key' = key
                /\ kpc' = "DONE"
           ELSE /\ master_key' = master_key
                /\ kpc' = "TRY_KEYFILE"
    /\ UNCHANGED <<keyring, keyfile, runs, generated>>
    /\ UNCHANGED sessionVars
    /\ UNCHANGED fileVars

\* mutant of TryKeyfile: a failed write to the key store is not swallowed and the
\* key of the file is dropped for a generated one
TryKeyfileGeneratingOnStoreFailure(read_fails, set_fails) ==
    /\ kpc = "TRY_KEYFILE"
    /\ IF read_fails
       THEN /\ kpc' = "CRASHED"
            /\ UNCHANGED <<keyring, master_key>>
       ELSE IF IsKey(keyfile) /\ ~set_fails
       THEN /\ keyring' = B64Encode(keyfile)
            /\ master_key' = keyfile
            /\ kpc' = "DONE"
       ELSE /\ kpc' = "GENERATE_NEW"
            /\ UNCHANGED <<keyring, master_key>>
    /\ UNCHANGED <<keyfile, runs, generated>>
    /\ UNCHANGED sessionVars
    /\ UNCHANGED fileVars

\* 2) Try keyfile.  read_fails: open() raises something other than
\* FileNotFoundError, which nothing catches; set_fails: keyring.set_password raises
TryKeyfile(read_fails, set_fails) ==
    /\ kpc = "TRY_KEYFILE"
    /\ IF read_fails
       THEN /\ kpc' = "CRASHED"
            /\ UNCHANGED <<keyring, master_key>>
       ELSE IF IsKey(keyfile)
       THEN /\ keyring' = IF set_fails THEN keyring ELSE B64Encode(keyfile)
            /\ master_key' = keyfile
            /\ kpc' = "DONE"
       ELSE /\ kpc' = "GENERATE_NEW"
            /\ UNCHANGED <<keyring, master_key>>
    /\ UNCHANGED <<keyfile, runs, generated>>
    /\ UNCHANGED sessionVars
    /\ UNCHANGED fileVars

\* mutant of GenerateNew: a key the key store refuses is returned without being
\* written to the key file
GenerateNewWithoutFallback(key, set_fails, file_fails) ==
    /\ kpc = "GENERATE_NEW"
    /\ keyring' = IF set_fails THEN keyring ELSE B64Encode(key)
    /\ keyfile' = keyfile
    /\ master_key' = key
    /\ kpc' = "DONE"
    /\ generated' = Append(generated, key)
    /\ UNCHANGED runs
    /\ UNCHANGED sessionVars
    /\ UNCHANGED fileVars

\* 3) generate, save to the keyring if possible, otherwise to the key file.
\* file_fails: save_key_to_keyfile raises (the file is replaced by os.replace or not at all)
GenerateNew(key, set_fails, file_fails) ==
    /\ kpc = "GENERATE_NEW"
    /\ IF ~set_fails
       THEN /\ keyring' = B64Encode(key)
            /\ keyfile' = keyfile
            /\ master_key' = key
            /\ kpc' = "DONE"
       ELSE IF ~file_fails
       THEN /\ keyring' = keyring
            /\ keyfile' = key
            /\ master_key' = key
            /\ kpc' = "DONE"
       ELSE /\ kpc' = "CRASHED"
            /\ UNCHANGED <<keyring, keyfile, master_key>>
    /\ generated' = Append(generated, key)
    /\ UNCHANGED runs
    /\ UNCHANGED sessionVars
    /\ UNCHANGED fileVars

\* the next start of the process: passencrypt is imported again
KeyStart ==
    /\ kpc \in {"DONE", "CRASHED"}
    /\ runs < MaxRuns
    /\ runs' = runs + 1
    /\ kpc' = "TRY_SECRET_STORE"
    /\ master_key' = None
    /\ UNCHANGED <<keyring, keyfile, generated>>
    /\ UNCHANGED sessionVars
    /\ UNCHANGED fileVars

InitKey ==
    /\ pc = "load"
    /\ portfolio = SamplePortfolio
    /\ transactions = SampleTransactions
    /\ preferences = SamplePreferences
    /\ steps = 0
    /\ kpc = "TRY_SECRET_STORE"
    /\ keyring \in KeyringEntries
    /\ keyfile \in KeyfileContents
    /\ master_key = None
    /\ runs = 1
    /\ generated = << >>
    /\ FileIdle

\* generate_fernet_key: 32 random bytes, so a key no earlier call returned
FreshKeys == NewKeys \ {generated[i] : i \in 1..Len(generated)}

NextKey ==
    \/ \E raises \in BOOLEAN : TrySecretStore(raises)
    \/ \E read_fails \in BOOLEAN, set_fails \in BOOLEAN : TryKeyfile(read_fails, set_fails)
    \/ \E key \in FreshKeys, set_fails \in BOOLEAN, file_fails \in BOOLEAN :
            GenerateNew(key, set_fails, file_fails)
    \/ KeyStart

SpecKey == InitKey /\ [][NextKey]_vars

\* the first start on a machine where neither the key store nor the key file holds
\* anything: no entry or an empty one, no file or an empty one
InitKeyEmpty ==
    /\ pc = "load"
    /\ portfolio = SamplePortfolio
    /\ transactions = SampleTransactions
    /\ preferences = SamplePreferences
    /\ steps = 0
    /\ kpc = "TRY_SECRET_STORE"
    /\ keyring \in {None, ""}
    /\ keyfile \in {None, ""}
    /\ master_key = None
    /\ runs = 1
    /\ generated = << >>
    /\ FileIdle

SpecKeyEmpty == InitKeyEmpty /\ [][NextKey]_vars

-----------------------------------------------------------------------------
(* passencrypt.py and portt_main.py: the encrypted state file across process runs *)

\* json.dumps of a dict: the members <<name, value>> in insertion order.  A position
\* dict that has no "status" key yet has no such member.
DumpPosition(asset) ==
    LET members == << <<"ticker", asset.ticker>>, <<"quantity", asset.quantity>>,
                      <<"buy_price", asset.buy_price>>,
                      <<"current_price", asset.current_price>>, <<"risk", asset.risk>> >>
    IN  IF asset.status = None THEN members ELSE Append(members, <<"status", asset.status>>)

DumpTransaction(t) ==
    << <<"date", t.date>>, <<"ticker", t.ticker>>, <<"type", t.type>>,
       <<"quantity", t.quantity>>, <<"price", t.price>> >>

DumpPreferences(prefs) == << <<"layout", prefs.layout>>, <<"order", prefs.order>> >>

\* json.dumps(obj): obj is the dict save_state_encrypted builds
JsonDumps(obj) ==
    [portfolio |-> [i \in 1..Len(obj.portfolio) |-> DumpPosition(obj.portfolio[i])],
     transactions |-> [i \in 1..Len(obj.transactions) |-> DumpTransaction(obj.transactions[i])],
     userdata |-> DumpPreferences(obj.userdata)]

\* the value of the member called name, absent when there is none
HasMember(members, name) == \E i \in 1..Len(members) : members[i][1] = name
Member(members, name) == members[CHOOSE i \in 1..Len(members) : members[i][1] = name][2]

LoadPosition(members) ==
    Position(Member(members, "ticker"), Member(members, "quantity"),
             Member(members, "buy_price"), Member(members, "current_price"),
             Member(members, "risk"),
             IF HasMember(members, "status") THEN Member(members, "status") ELSE None)

LoadTransaction(members) ==
    Transaction(Member(members, "date"), Member(members, "ticker"), Member(members, "type"),
                Member(members, "quantity"), Member(members, "price"))

LoadPreferences(members) ==
    [layout |-> Member(members, "layout"), order |-> Member(members, "order")]

\* json.loads(plaintext)
JsonLoads(text) ==
    [portfolio |-> [i \in 1..Len(text.portfolio) |-> LoadPosition(text.portfolio[i])],
     transactions |-> [i \in 1..Len(text.transactions) |-> LoadTransaction(text.transactions[i])],
     userdata |-> LoadPreferences(text.userdata)]

\* what the state file can hold: nothing (no file), a Fernet token, or bytes that are
\* no token (an empty, truncated or altered file)
NoFile == [kind |-> "absent"]
Garbage == [kind |-> "garbage"]

\* Fernet(key).encrypt(plaintext): a token only the same key decrypts
FernetEncrypt(key, text) == [kind |-> "token", key |-> key, text |-> text]

\* decrypt_state(key, filename)
decrypt_state(key, file) ==
    IF file.kind = "absent" THEN [kind |-> "none"]
    ELSE IF file.kind = "token" /\ file.key = key
         THEN [kind |-> "data", data |-> JsonLoads(file.text)]
         ELSE [kind |-> "raised"]

\* passencrypt.load_state(): every exception of decrypt_state becomes None
load_state(key, file) ==
    LET r == decrypt_state(key, file)
    IN  IF r.kind = "raised" THEN [kind |-> "none"] ELSE r

\* the dict save_state_encrypted builds from the three lists
StateDict(pl, log, prefs) == [portfolio |-> pl, transactions |-> log, userdata |-> prefs]

\* encrypt_state(obj, key): how the file is left.  outcome "open_fails": open(filename, "wb")
\* raises and the file is as it was; "write_fails": the file has been truncated by
\* open() and the write raises or the process is stopped before it completes;
\* "written": the token is in the file
SaveOutcomes == {"written", "open_fails", "write_fails"}

encrypt_state(obj, key, file, outcome) ==
    IF outcome = "open_fails" THEN file
    ELSE IF outcome = "write_fails" THEN Garbage
    ELSE FernetEncrypt(key, JsonDumps(obj))

\* x[:] = data.get("x", x) for the three members, in the order of the code.  scalar
\* names a member whose value in the file is a number, not a list: the slice
\* assignment of that member raises TypeError and the members after it are not reached
ScalarMembers == {"none", "transactions", "userdata"}

AssignMembers(data, scalar, pl, log, prefs) ==
    LET got == ApplySnapshot(data, pl, log, prefs)
    IN  IF scalar = "transactions"
        THEN [raised |-> TRUE, portfolio |-> got.portfolio,
              transactions |-> log, preferences |-> prefs]
        ELSE IF scalar = "userdata"
        THEN [raised |-> TRUE, portfolio |-> got.portfolio,
              transactions |-> got.transactions, preferences |-> prefs]
        ELSE [raised |-> FALSE, portfolio |-> got.portfolio,
              transactions |-> got.transactions, preferences |-> got.preferences]

\* userdata.json as the load of this specification reads it
StoreJsonFiles ==
    {[kind |-> "absent"], [kind |-> "malformed"]}
        \cup {[kind |-> "data", data |-> d, scalar |-> m] : d \in Snapshots, m \in ScalarMembers}

\* load_state(filename="userdata.json") called from __main__: what it leaves and prints.
\* An exception other than FileNotFoundError leaves load_state and is caught at the
\* end of the load block of __main__
LoadJson(json, pl, log, prefs, printed) ==
    IF json.kind = "absent"
    THEN [portfolio |-> pl, transactions |-> log, preferences |-> prefs,
          shown |-> printed \cup {"No saved session found"}]
    ELSE IF json.kind = "malformed"
    THEN [portfolio |-> pl, transactions |-> log, preferences |-> prefs,
          shown |-> printed \cup {"Error during load"}]
    ELSE LET got == AssignMembers(json.data, json.scalar, pl, log, prefs)
         IN  IF got.raised
             THEN [portfolio |-> got.portfolio, transactions |-> got.transactions,
                   preferences |-> got.preferences,
                   shown |-> printed \cup {"Error during load"}]
             ELSE [portfolio |-> refresh_portfolio_metrics(got.portfolio),
                   transactions |-> got.transactions, preferences |-> got.preferences,
                   shown |-> printed \cup {"Previous session loaded"}]

\* the load block of __main__ against the state file and userdata.json
LoadSession(json) ==
    /\ pc = "load"
    /\ kpc = "DONE"
    /\ LET loaded == load_state(master_key, statefile)
           after ==
                IF loaded.kind = "data"
                THEN LET got == AssignMembers(loaded.data, "none",
                                              portfolio, transactions, preferences)
                     IN  [portfolio |-> refresh_portfolio_metrics(got.portfolio),
                          transactions |-> got.transactions,
                          preferences |-> got.preferences,
                          shown |-> shown \cup {"Encrypted session loaded"}]
                ELSE LoadJson(json, portfolio, transactions, preferences, shown)
       IN  /\ portfolio' = after.portfolio
           /\ transactions' = after.transactions
           /\ preferences' = after.preferences
           /\ shown' = after.shown
    /\ pc' = "prices"
    /\ UNCHANGED <<steps, statefile>>
    /\ UNCHANGED keyVars

\* one confirmed transaction in the session, so that what is saved differs from what was loaded
SessionTransaction ==
    /\ steps = 0
    /\ make_transaction("2025-04-02", "MSFT", "Buy", R(5), R(160), "YES")

\* choice 0 or /exit: save_state_encrypted() and exit()
SaveAndExit(outcome) ==
    /\ pc \in {"home", "menu"}
    /\ statefile' = encrypt_state(StateDict(portfolio, transactions, preferences),
                                  master_key, statefile, outcome)
    /\ shown' = shown \cup {IF outcome = "written" THEN "Encrypted state saved"
                                                    ELSE "Failed to save encrypted state"}
    /\ pc' = "exited"
    /\ UNCHANGED <<portfolio, transactions, preferences, steps>>
    /\ UNCHANGED keyVars

\* the program is started again: the modules are imported anew, so the lists are the
\* sample data of models.py and ensure_master_key runs
ProcessStart ==
    /\ pc \in {"exited", "crashed"} \/ kpc = "CRASHED"
    /\ runs < MaxRuns
    /\ runs' = runs + 1
    /\ pc' = "load"
    /\ portfolio' = SamplePortfolio
    /\ transactions' = SampleTransactions
    /\ preferences' = SamplePreferences
    /\ steps' = 0
    /\ kpc' = "TRY_SECRET_STORE"
    /\ master_key' = None
    /\ shown' = {}
    /\ UNCHANGED <<keyring, keyfile, generated, statefile>>

\* the state files a first start can find
InitialStateFiles == {NoFile, Garbage} \cup
    {FernetEncrypt(k, JsonDumps(StateDict(d.portfolio, d.transactions, d.userdata))) :
        k \in {"K1"}, d \in Snapshots}

InitStore ==
    /\ pc = "load"
    /\ portfolio = SamplePortfolio
    /\ transactions = SampleTransactions
    /\ preferences = SamplePreferences
    /\ steps = 0
    /\ kpc = "TRY_SECRET_STORE"
    /\ keyring \in {None, B64Encode("K1")}
    /\ keyfile = None
    /\ master_key = None
    /\ runs = 1
    /\ generated = << >>
    /\ statefile \in InitialStateFiles
    /\ shown = {}

NextStore ==
    \/ \E raises \in BOOLEAN : TrySecretStore(raises)
    \/ \E read_fails \in BOOLEAN, set_fails \in BOOLEAN : TryKeyfile(read_fails, set_fails)
    \/ \E key \in FreshKeys, set_fails \in BOOLEAN, file_fails \in BOOLEAN :
            GenerateNew(key, set_fails, file_fails)
    \/ \E json \in StoreJsonFiles : LoadSession(json)
    \/ \E resp \in ResponseVectors(portfolio) : StartupPrices(resp)
    \/ home_page
    \/ SessionTransaction
    \/ \E outcome \in SaveOutcomes : SaveAndExit(outcome)
    \/ ProcessStart

SpecStore == InitStore /\ [][NextStore]_vars

-----------------------------------------------------------------------------
(* Sequences of buys of one ticker, from a portfolio that does not hold it *)

BuyTicker == "AAPL"
BuyQuantities == {R(1), R(5), R(10)}
BuyPrices == {R(0), R(150), R(160)}

OtherHoldings ==
    << Position("TSLA", R(3), R(700), R(650), "high", "loss"),
       Position("BTC", Frac(2, 100), R(30000), R(45000), "high", "profit") >>

InitBuys ==
    /\ pc = "menu"
    /\ portfolio \in {<< >>, OtherHoldings}
    /\ transactions = << >>
    /\ preferences = SamplePreferences
    /\ steps = 0
    /\ KeyIdle
    /\ FileIdle

Buy(quantity, price) ==
    /\ Len(transactions) < MaxBuys
    /\ make_transaction("2025-04-02", "aapl", "Buy", quantity, price, "YES")

NextBuys == \E quantity \in BuyQuantities, price \in BuyPrices : Buy(quantity, price)

SpecBuys == InitBuys /\ [][NextBuys]_vars

-----------------------------------------------------------------------------
(* computations.py: volatility, the risk tiers, the sorted views, the monthly claim *)

\* what yf.Ticker(t).history(period="60d") can do: raise, or return a frame with
\* these closes, oldest first
HistoryError == [kind |-> "error", closes |-> << >>]
History(closes) == [kind |-> "frame", closes |-> closes]

\* data["Close"].pct_change().dropna(): the change from each close to the next
PctChange(closes) ==
    [i \in 1..(Len(closes) - 1) |-> RSub(RDiv(closes[i + 1], closes[i]), R(1))]

RECURSIVE SumSeq(_)
SumSeq(xs) == IF xs = << >> THEN R(0) ELSE RAdd(Head(xs), SumSeq(Tail(xs)))

\* the square of returns.std(): the sample variance, for two values or more
Variance(xs) ==
    LET mean == RDiv(SumSeq(xs), R(Len(xs)))
        squares == [i \in 1..Len(xs) |-> RMul(RSub(xs[i], mean), RSub(xs[i], mean))]
    IN  RDiv(SumSeq(squares), R(Len(xs) - 1))

\* what volatility returns: None, a number, or the not-a-number that the std() of a
\* single value is.  A number v >= 0 is held as its square, which is rational:
\* v = std * 252 ** 0.5, so v * v = 252 * variance
NoVolatility == [kind |-> "none", square |-> R(0)]
NotANumber == [kind |-> "nan", square |-> R(0)]

volatility(answer) ==
    IF answer.kind = "error" THEN NoVolatility
    ELSE IF Len(answer.closes) < 2 THEN NoVolatility
    ELSE LET returns == PctChange(answer.closes)
         IN  IF Len(returns) < 2 THEN NotANumber
             ELSE [kind |-> "real", square |-> RMul(R(252), Variance(returns))]

\* vol > threshold, on floats: False when vol is not a number
Exceeds(vol, threshold) ==
    vol.kind = "real" /\ RLt(RMul(threshold, threshold), vol.square)

\* classify_risk(item), the gateway giving answer for the item's ticker
classify_risk(answer) ==
    LET vol == volatility(answer)
    IN  IF vol.kind = "none" THEN "UNKNOWN"
        ELSE IF Exceeds(vol, Frac(45, 100)) THEN "HIGH"
        ELSE IF Exceeds(vol, Frac(20, 100)) THEN "OPTIMAL"
        ELSE "LOW"

RISK_WEIGHT == ("LOW" :> 1) @@ ("OPTIMAL" :> 2) @@ ("HIGH" :> 3)

\* risk_score(item): RISK_WEIGHT.get(level, 2)
risk_score(answer) ==
    LET level == classify_risk(answer)
    IN  IF level \in DOMAIN RISK_WEIGHT THEN RISK_WEIGHT[level] ELSE 2

\* sorted(..., reverse=False): the indices in ascending key order, equal keys keeping
\* their input order
RECURSIVE InsertAsc(_, _, _)
InsertAsc(x, order, keys) ==
    IF order = << >> THEN << x >>
    ELSE IF RLt(keys[x], keys[Head(order)])
         THEN << x >> \o order
         ELSE << Head(order) >> \o InsertAsc(x, Tail(order), keys)

RECURSIVE OrderAsc(_, _)
OrderAsc(n, keys) ==
    IF n = 0 THEN << >> ELSE InsertAsc(n, OrderAsc(n - 1, keys), keys)

SortedAsc(seq, keys) ==
    LET order == OrderAsc(Len(seq), keys)
    IN  [i \in 1..Len(seq) |-> seq[order[i]]]

sorted_by_return(pl) == SortedDesc(pl, [i \in 1..Len(pl) |-> percent_return(pl[i])])

sorted_by_pnl(pl) == SortedDesc(pl, [i \in 1..Len(pl) |-> unrealized_pl(pl[i])])

\* mutant of sorted_by_risk: any order that begins with "HtoLrisk" sorts descending
sorted_by_risk_on_prefix(pl, prefs, answers) ==
    LET keys == [i \in 1..Len(pl) |-> R(risk_score(answers[i]))]
    IN  IF prefs.order \in {"HtoLrisk", "HtoLrisk or LtoHrisk"}
        THEN SortedDesc(pl, keys)
        ELSE SortedAsc(pl, keys)

\* "Sort by risk preference": answers[i] is the gateway's answer to the volatility
\* call that risk_score makes for the i-th asset
sorted_by_risk(pl, prefs, answers) ==
    LET keys == [i \in 1..Len(pl) |-> R(risk_score(answers[i]))]
    IN  IF prefs.order = "HtoLrisk"
        THEN SortedDesc(pl, keys)
        ELSE SortedAsc(pl, keys)

\* the dates the model uses: their order as strings (what max() compares) and
\* their first seven characters (date[0:7])
DateRank ==
    ("2025-02-03" :> 1) @@ ("2025-03-01" :> 2) @@ ("2025-03-05" :> 3)
        @@ ("2025-03-10" :> 4) @@ ("2025-04-02" :> 5) @@ ("2025-05-06" :> 6)

MonthOf ==
    ("2025-02-03" :> "2025-02") @@ ("2025-03-01" :> "2025-03") @@ ("2025-03-05" :> "2025-03")
        @@ ("2025-03-10" :> "2025-03") @@ ("2025-04-02" :> "2025-04")
        @@ ("2025-05-06" :> "2025-05")

IsBuy(t) == t.type = "buy"

\* max(t["date"] for t in buy_transactions), for a list that is not empty
LatestDate(buys) ==
    buys[CHOOSE i \in 1..Len(buys) :
            \A j \in 1..Len(buys) : DateRank[buys[j].date] <= DateRank[buys[i].date]].date

\* monthly_recap: the buys whose month is the month of the latest buy
Ventures(log) ==
    LET buy_transactions == SelectSeq(log, IsBuy)
        latest_month == MonthOf[LatestDate(buy_transactions)]
        InMonth(t) == MonthOf[t.date] = latest_month
    IN  SelectSeq(buy_transactions, InMonth)

\* the loops of get_portfolio_claim: ventures whose first matching asset has the risk
RECURSIVE CountRisk(_, _, _)
CountRisk(ventures, pl, risk) ==
    IF ventures = << >> THEN 0
    ELSE LET i == FindAsset(pl, Head(ventures).ticker)
             one == IF i # 0 /\ Upper(pl[i].risk) = risk THEN 1 ELSE 0
         IN  one + CountRisk(Tail(ventures), pl, risk)

\* mutant of get_portfolio_claim: a tie is resolved as conservative
get_portfolio_claim_tie_conservative(ventures, pl) ==
    IF CountRisk(ventures, pl, "HIGH") > CountRisk(ventures, pl, "LOW")
    THEN "daring" ELSE "conservative"

get_portfolio_claim(ventures, pl) ==
    LET high_count == CountRisk(ventures, pl, "HIGH")
        low_count == CountRisk(ventures, pl, "LOW")
    IN  IF high_count > low_count THEN "daring"
        ELSE IF high_count < low_count THEN "conservative"
        ELSE "balanced"

-----------------------------------------------------------------------------
(* The metrics and the risk classifier applied to bounded inputs: one call of one *)
(* function on a portfolio, a log and preferences drawn from the sets below       *)

\* histories: no rows, one row, two rows, and closes whose annualised volatility is
\* about 0.11, exactly 0.20, about 0.449, exactly 0.45 and about 2.2
TwoCloses == History(<< R(100), R(110) >>)
CalmCloses == History(<< R(40000), R(40200), R(39999) >>)
CloseAtLowThreshold == History(<< R(4410), R(4515), R(4601), R(4601) >>)
ModerateCloses == History(<< R(2500), R(2550), R(2499) >>)
CloseAtHighThreshold == History(<< R(3920), R(4130), R(4307), R(4307) >>)
WildCloses == History(<< R(100), R(110), R(99) >>)

HistoryAnswers ==
    {HistoryError, History(<< >>), History(<< R(100) >>), TwoCloses, CalmCloses,
     CloseAtLowThreshold, ModerateCloses, CloseAtHighThreshold, WildCloses}

\* the answers given to the volatility calls of one sort
SortAnswers == {HistoryError, CalmCloses, ModerateCloses, WildCloses}

TiedHoldings ==
    << Position("AAA", R(1), R(100), R(100), "LOW", None),
       Position("BBB", R(2), R(50), R(50), "low", None),
       Position("CCC", R(1), R(100), R(110), "OPTIMAL", None) >>

MetricPortfolios == {<< >>, SamplePortfolio, TiedHoldings}

MetricLogs ==
    {<< >>,
     SampleTransactions,
     Append(SampleTransactions, Transaction("2025-04-02", "AAPL", "sell", R(5), R(160))),
     << Transaction("2025-04-02", "AAPL", "sell", R(5), R(160)) >>,
     << Transaction("2025-03-05", "AAPL", "buy", R(1), R(100)),
        Transaction("2025-04-02", "BBB", "buy", R(2), R(50)),
        Transaction("2025-04-02", "CCC", "buy", R(1), R(100)),
        Transaction("2025-04-02", "MSFT", "buy", R(1), R(100)) >>,
     << Transaction("2025-04-02", "AAA", "buy", R(1), R(100)),
        Transaction("2025-04-02", "AAPL", "buy", R(1), R(100)) >>}

MetricPreferences ==
    {SamplePreferences, [layout |-> "1", order |-> "HtoLrisk"],
     [layout |-> "1", order |-> "LtoHrisk"]}

InitMetrics ==
    /\ pc = "call"
    /\ portfolio \in MetricPortfolios
    /\ transactions \in MetricLogs
    /\ preferences \in MetricPreferences
    /\ steps = 0
    /\ KeyIdle
    /\ FileIdle

\* recalculate_portfolio(portfolio, preferences): the sorted views it returns (lists of
\* the same dicts, so they show the status the call stores), the answers the gateway
\* gave to the sort by risk, and the list as the call leaves it
Recalculate(answers) ==
    /\ pc = "call"
    /\ pc' = "returned"
    /\ LET after == recalculate_portfolio(portfolio).portfolio_list
       IN  /\ shown' = {[call |-> "recalculate_portfolio",
                         answers |-> answers,
                         total_value |-> recalculate_portfolio(portfolio).total_value,
                         sorted_by_return |-> sorted_by_return(after),
                         sorted_by_pnl |-> sorted_by_pnl(after),
                         sorted_by_risk |-> sorted_by_risk(after, preferences, answers)]}
           /\ portfolio' = after
    /\ UNCHANGED <<transactions, preferences, steps, statefile>>
    /\ UNCHANGED keyVars

\* classify_risk(item) and risk_score(item) for one asset
ClassifyRisk(answer) ==
    /\ pc = "call"
    /\ pc' = "returned"
    /\ shown' = {[call |-> "classify_risk",
                  answer |-> answer,
                  level |-> classify_risk(answer),
                  score |-> risk_score(answer)]}
    /\ UNCHANGED <<portfolio, transactions, preferences, steps, statefile>>
    /\ UNCHANGED keyVars

\* monthly_recap: the claim it prints, None when it returns before computing one
MonthlyRecap ==
    /\ pc = "call"
    /\ pc' = "returned"
    /\ shown' = {[call |-> "monthly_recap",
                  claim |-> IF SelectSeq(transactions, IsBuy) = << >> THEN None
                            ELSE get_portfolio_claim(Ventures(transactions), portfolio)]}
    /\ UNCHANGED <<portfolio, transactions, preferences, steps, statefile>>
    /\ UNCHANGED keyVars

\* update_all_current_prices(portfolio): the list before the call and the answers
RefreshPrices(kinds) ==
    /\ pc = "call"
    /\ pc' = "returned"
    /\ shown' = {[call |-> "update_all_current_prices",
                  kinds |-> kinds,
                  portfolio_list |-> portfolio]}
    /\ portfolio' = update_all_current_prices(portfolio, kinds)
    /\ UNCHANGED <<transactions, preferences, steps, statefile>>
    /\ UNCHANGED keyVars

NextMetrics ==
    \/ \E answers \in [1..Len(portfolio) -> SortAnswers] : Recalculate(answers)
    \/ \E answer \in HistoryAnswers : ClassifyRisk(answer)
    \/ MonthlyRecap
    \/ \E kinds \in ResponseVectors(portfolio) : RefreshPrices(kinds)

SpecMetrics == InitMetrics /\ [][NextMetrics]_vars

\* the record the last call left in shown, when that call was the named one
Called(name) == \E r \in shown : r.call = name
LastCall == CHOOSE r \in shown : TRUE

-----------------------------------------------------------------------------
(* Properties *)

AllPositive(pl) == \A i \in 1..Len(pl) : RPos(pl[i].quantity)

IsPrefix(a, b) == Len(a) <= Len(b) /\ SubSeq(b, 1, Len(a)) = a

\* the step is a make_transaction call that was confirmed with transaction t
Submitted(t) ==
    \E ticker_in \in TickerInputs, type_in \in TypeInputs :
        /\ Upper(ticker_in) = t.ticker
        /\ Lower(type_in) = t.type
        /\ make_transaction(t.date, ticker_in, type_in, t.quantity, t.price, "YES")

\* the step is a confirmed make_transaction call (the entry it logged is the last one)
ConfirmedTransaction ==
    /\ pc = "menu"
    /\ Len(transactions') = Len(transactions) + 1
    /\ Submitted(transactions'[Len(transactions')])

LastLogged == transactions'[Len(transactions')]

Held(pl, ticker) == FindAsset(pl, ticker) # 0

\* C1: a confirmed transaction applied to a portfolio whose positions all have
\* quantity > 0 leaves a portfolio whose positions all have quantity > 0
C1_PositionsStayPositive ==
    [][(ConfirmedTransaction /\ AllPositive(portfolio)) => AllPositive(portfolio')]_vars

\* C2: a confirmed sell of a ticker no position has leaves the positions as they were
C2_SellUnheldIsNoOp ==
    [][(/\ ConfirmedTransaction
        /\ LastLogged.type = "sell"
        /\ ~Held(portfolio, LastLogged.ticker)) => portfolio' = portfolio]_vars

\* C3: a sell of more than the held quantity leaves the position unchanged, and a
\* sell of exactly the held quantity removes the position
C3_OversellRejectedExactSellRemoves ==
    [][(/\ ConfirmedTransaction
        /\ LastLogged.type = "sell"
        /\ Held(portfolio, LastLogged.ticker))
        => LET i == FindAsset(portfolio, LastLogged.ticker)
           IN  /\ RLt(portfolio[i].quantity, LastLogged.quantity) => portfolio' = portfolio
               /\ portfolio[i].quantity = LastLogged.quantity
                    => portfolio' = RemoveAt(portfolio, i)]_vars

\* a transaction the ledger must reject, against the positions it is submitted to
Rejected(t, pl) ==
    \/ t.quantity.n <= 0
    \/ t.price.n < 0
    \/ /\ t.type = "sell"
       /\ \/ ~Held(pl, t.ticker)
          \/ RLt(pl[FindAsset(pl, t.ticker)].quantity, t.quantity)

\* C4: no step appends to the log a transaction that must be rejected
C4_LogHoldsOnlyValid ==
    [][(/\ pc = "menu"
        /\ Len(transactions') = Len(transactions) + 1
        /\ IsPrefix(transactions, transactions'))
        => ~Rejected(LastLogged, portfolio)]_vars

\* C5: submitting a transaction with quantity <= 0 or price < 0 changes neither the
\* portfolio nor the log
C5_InvalidAmountsHaveNoEffect ==
    [][\A date \in DateInputs, ticker_in \in TickerInputs, type_in \in TypeInputs,
          quantity \in QuantityInputs, price \in PriceInputs :
            (/\ quantity.n <= 0 \/ price.n < 0
             /\ make_transaction(date, ticker_in, type_in, quantity, price, "YES"))
            => (portfolio' = portfolio /\ transactions' = transactions)]_vars

RECURSIVE TotalQuantity(_)
TotalQuantity(log) ==
    IF log = << >> THEN R(0) ELSE RAdd(Head(log).quantity, TotalQuantity(Tail(log)))

RECURSIVE TotalCost(_)
TotalCost(log) ==
    IF log = << >> THEN R(0)
    ELSE RAdd(RMul(Head(log).quantity, Head(log).price), TotalCost(Tail(log)))

\* the portfolio after the transactions of log are applied, in order, to pl
RECURSIVE Replay(_, _)
Replay(pl, log) ==
    IF log = << >> THEN pl
    ELSE Replay(UpdatePortfolio(pl, Head(log).ticker, Head(log).type,
                                Head(log).quantity, Head(log).price).portfolio,
                Tail(log))

NotBuyTicker(asset) == asset.ticker # BuyTicker

\* C6: after a sequence of buys of one ticker, the position's quantity is the total
\* bought, its average_buy_price is total cost / total quantity, and applying the
\* same buys in any other order gives the same quantity and average
C6_WeightedMeanOrderIndependent ==
    Len(transactions) >= 1 =>
        LET i == FindAsset(portfolio, BuyTicker)
            n == Len(transactions)
        IN  /\ i # 0
            /\ portfolio[i].quantity = TotalQuantity(transactions)
            /\ portfolio[i].buy_price =
                    RDiv(TotalCost(transactions), TotalQuantity(transactions))
            /\ \A f \in Permutations(1..n) :
                    LET r == Replay(SelectSeq(portfolio, NotBuyTicker),
                                    [k \in 1..n |-> transactions[f[k]]])
                        j == FindAsset(r, BuyTicker)
                    IN  /\ j # 0
                        /\ r[j].quantity = portfolio[i].quantity
                        /\ r[j].buy_price = portfolio[i].buy_price

\* the scenario of the specification: 10 @ 150 then 5 @ 160 gives 15 @ 2300/15
C6_Witness ==
    /\ Len(transactions) = 2
    /\ transactions[1].quantity = R(10) /\ transactions[1].price = R(150)
    /\ transactions[2].quantity = R(5) /\ transactions[2].price = R(160)
    /\ \E i \in 1..Len(portfolio) :
            /\ portfolio[i].ticker = BuyTicker
            /\ portfolio[i].quantity = R(15)
            /\ portfolio[i].buy_price = Frac(2300, 15)

\* the positions of pl whose ticker is not t, in order
OtherTickers(pl, t) ==
    LET Other(asset) == asset.ticker # t IN SelectSeq(pl, Other)

\* C7: a confirmed transaction leaves every position of another ticker as it was; it
\* either removes the position it matched or leaves its current_price, ticker and risk
\* as they were and every other entry of the list in place; and a sell that leaves a
\* positive remainder lowers quantity by the amount sold and keeps average_buy_price
C7_TransactionFrame ==
    [][ConfirmedTransaction =>
        LET t == LastLogged
            i == FindAsset(portfolio, t.ticker)
        IN  /\ OtherTickers(portfolio', t.ticker) = OtherTickers(portfolio, t.ticker)
            /\ i # 0 =>
                \/ portfolio' = RemoveAt(portfolio, i)
                \/ /\ Len(portfolio') = Len(portfolio)
                   /\ \A j \in 1..Len(portfolio) : j # i => portfolio'[j] = portfolio[j]
                   /\ portfolio'[i].current_price = portfolio[i].current_price
                   /\ portfolio'[i].ticker = portfolio[i].ticker
                   /\ portfolio'[i].risk = portfolio[i].risk
            /\ (/\ i # 0
                /\ t.type = "sell"
                /\ RPos(RSub(portfolio[i].quantity, t.quantity)))
                => /\ Len(portfolio') = Len(portfolio)
                   /\ portfolio'[i].quantity = RSub(portfolio[i].quantity, t.quantity)
                   /\ portfolio'[i].buy_price = portfolio[i].buy_price]_vars

\* a sell of 5 of the 10 AAPL held has been applied
C7_Witness ==
    /\ pc = "menu"
    /\ Len(transactions) = 3
    /\ transactions[3].type = "sell" /\ transactions[3].quantity = R(5)
    /\ Len(portfolio) = 3
    /\ portfolio[1].ticker = "AAPL"
    /\ portfolio[1].quantity = R(5)
    /\ portfolio[1].buy_price = R(150)
    /\ portfolio[2].ticker = "TSLA"

\* C8 as stated: every step leaves the log a prefix of the log after it
C8_AppendOnlyEverywhere == [][IsPrefix(transactions, transactions')]_vars

\* C8 as amended: every step leaves the log a prefix of the log after it, except the
\* start-up load and the menu's import, which replace the log with the one they read
C8_AppendOnlyExceptLoadAndImport ==
    [][\/ IsPrefix(transactions, transactions')
       \/ pc = "load"
       \/ MenuImportStep]_vars

\* a confirmed transaction has been appended after the two sample entries
C8_Witness ==
    /\ pc = "menu"
    /\ Len(transactions) = 4
    /\ SubSeq(transactions, 1, 2) = SampleTransactions

\* C9 as stated: recalculate_portfolio leaves the list it is given exactly as it was,
\* so the start-up step that refreshes the prices and then recalculates leaves the
\* positions as the price refresh alone leaves them
C9_RecalculateChangesNothing ==
    [][pc = "prices" =>
        \E kinds \in ResponseVectors(portfolio) :
            portfolio' = update_all_current_prices(portfolio, kinds)]_vars

\* C9 as amended: recalculate_portfolio leaves the list's length and order and every
\* field of every position as they were, except status, which it sets to profit or loss
C9_RecalculateChangesOnlyStatus ==
    LET after == recalculate_portfolio(portfolio).portfolio_list
    IN  /\ Len(after) = Len(portfolio)
        /\ \A i \in 1..Len(portfolio) :
                /\ [after[i] EXCEPT !.status = portfolio[i].status] = portfolio[i]
                /\ after[i].status \in {"profit", "loss"}

\* the start-up recalculation has run on the three sample positions after a price
\* refresh, and gave the first "profit" and the second "loss"
C9_Witness ==
    /\ pc = "home"
    /\ Len(portfolio) = 3
    /\ portfolio[1].status = "profit"
    /\ portfolio[2].status = "loss"
    /\ RLt(percent_return(portfolio[1]), percent_return(portfolio[3]))

\* C10: the key store is tried first, the key file second and only after the store
\* gave no key, generation third and only after the file gave no key; a key the store
\* yields is returned with both stores untouched; a key the file yields is returned
\* whether or not the store accepts it, and the file is left alone
C10_KeyAcquisitionOrder ==
    [][/\ kpc' = "TRY_KEYFILE" => kpc = "TRY_SECRET_STORE"
       /\ kpc' = "GENERATE_NEW" => kpc = "TRY_KEYFILE"
       /\ \A raises \in BOOLEAN :
            (TrySecretStore(raises) /\ IsKey(load_key_from_keyring(keyring, raises)))
                => /\ kpc' = "DONE"
                   /\ master_key' = B64Decode(keyring)
                   /\ UNCHANGED <<keyring, keyfile>>
       /\ kpc = "TRY_SECRET_STORE" =>
            /\ kpc' \in {"DONE", "TRY_KEYFILE"}
            /\ kpc' = "TRY_KEYFILE" => UNCHANGED <<keyring, keyfile, master_key>>
       /\ kpc = "TRY_KEYFILE" =>
            /\ kpc' \in {"DONE", "GENERATE_NEW", "CRASHED"}
            /\ (IsKey(keyfile) /\ kpc' # "CRASHED") =>
                    /\ kpc' = "DONE"
                    /\ master_key' = keyfile
                    /\ keyfile' = keyfile
                    /\ keyring' \in {keyring, B64Encode(keyfile)}
            /\ kpc' = "GENERATE_NEW" =>
                    /\ ~IsKey(keyfile)
                    /\ UNCHANGED <<keyring, keyfile, master_key>>
       /\ kpc = "GENERATE_NEW" =>
            /\ kpc' \in {"DONE", "CRASHED"}
            /\ kpc' = "DONE" => master_key' \in NewKeys]_vars

\* the first run ended with the key of the key file although the store refused it
C10_Witness ==
    /\ runs = 1
    /\ kpc = "DONE"
    /\ keyfile = "K1"
    /\ master_key = "K1"
    /\ keyring = "not-base64"

\* key is held by the key store or by the key file
Persisted(key) == keyring = B64Encode(key) \/ keyfile = key

Undecryptable == statefile.kind # "absent" /\ decrypt_state(master_key, statefile).kind = "raised"

\* C12: at the start-up load, load_state gives "absent" for a missing file, the saved
\* snapshot for a file written under the same key, and for any other file an error
\* that differs from what it gives for a missing file; and a save that completes
\* leaves a file from which load_state under the same key gives back what was saved
C12_LoadStateThreeOutcomes ==
    /\ []((pc = "load" /\ kpc = "DONE") =>
            LET r == load_state(master_key, statefile)
            IN  /\ statefile.kind = "absent" => r.kind = "none"
                /\ (statefile.kind = "token" /\ statefile.key = master_key) =>
                        (r.kind = "data" /\ JsonDumps(r.data) = statefile.text)
                /\ Undecryptable =>
                        (r.kind # "data" /\ r # load_state(master_key, NoFile)))
    /\ [][\A outcome \in SaveOutcomes :
            (SaveAndExit(outcome) /\ outcome = "written") =>
                load_state(master_key, statefile').data =
                    StateDict(portfolio, transactions, preferences)]_vars

\* the warnings the load block can print
LoadWarnings == {"Encrypted load failed", "Error during load", "No saved session found"}

\* C13: a step that replaces a state file the start-up load of this run could not
\* decrypt is taken only after the load printed a warning
C13_FailedLoadNotOverwrittenSilently ==
    [][(/\ pc \in {"home", "menu"}
        /\ Undecryptable
        /\ statefile' # statefile) => shown \cap LoadWarnings # {}]_vars

\* C14: a save leaves the state file as it was or holding the complete new token, and
\* the start-up load leaves the three lists all as they were or all as the loaded
\* snapshot gives them
C14_SaveAndLoadAtomic ==
    [][/\ pc \in {"home", "menu"} =>
            statefile' \in {statefile,
                            FernetEncrypt(master_key,
                                JsonDumps(StateDict(portfolio, transactions, preferences)))}
       /\ pc = "load" =>
            \/ /\ transactions' = transactions
               /\ preferences' = preferences
               /\ portfolio' = portfolio
            \/ \E d \in Snapshots :
                /\ transactions' = d.transactions
                /\ preferences' = d.userdata
                /\ portfolio' = refresh_portfolio_metrics(d.portfolio)]_vars

\* the verdict for high HIGH-risk and low LOW-risk ventures
Verdict(high, low) ==
    IF high > low THEN "daring" ELSE IF low > high THEN "conservative" ELSE "balanced"

\* how many buys of log in the month have a ticker that pl holds with the risk tier
\* (whatever the case of the stored string)
TierCount(log, month, pl, tier) ==
    Cardinality({i \in 1..Len(log) :
        /\ log[i].type = "buy"
        /\ MonthOf[log[i].date] = month
        /\ \E k \in 1..Len(pl) :
            /\ pl[k].ticker = log[i].ticker
            /\ \A j \in 1..(k - 1) : pl[j].ticker # log[i].ticker
            /\ Upper(pl[k].risk) = tier})

C16_TierIsStepFunctionOfVolatility ==
    Called("classify_risk") =>
        LET vol == volatility(LastCall.answer)
            level == LastCall.level
            above45 == vol.kind = "real" /\ RLt(Frac(2025, 10000), vol.square)
            above20 == vol.kind = "real" /\ RLt(Frac(400, 10000), vol.square)
        IN  /\ level = "HIGH" <=> above45
            /\ level = "OPTIMAL" <=> (above20 /\ ~above45)
            /\ level = "LOW" <=> (vol.kind = "real" /\ ~above20)
            /\ level = "UNKNOWN" <=> vol.kind = "none"

\* view lists the positions pl[f[1]], pl[f[2]], ... for a permutation f along which
\* the keys never increase and equal keys keep their input order
StableDescending(view, pl, keys) ==
    /\ Len(view) = Len(pl)
    /\ \E f \in Permutations(1..Len(pl)) :
        /\ \A i \in 1..Len(pl) : view[i] = pl[f[i]]
        /\ \A i \in 1..(Len(pl) - 1) :
            /\ RLe(keys[f[i + 1]], keys[f[i]])
            /\ keys[f[i + 1]] = keys[f[i]] => f[i] < f[i + 1]

Negated(keys) == [i \in DOMAIN keys |-> RSub(R(0), keys[i])]

\* the weight of the tier the classifier gives for the answer
TierWeight(answer) ==
    LET level == classify_risk(answer)
    IN  CASE level = "LOW" -> 1
          [] level = "OPTIMAL" -> 2
          [] level = "HIGH" -> 3
          [] level = "UNKNOWN" -> 2

\* C17: the three sorted views recalculate_portfolio returns are permutations of the
\* positions, in descending percent return, descending unrealized P&L and in the
\* order of the risk weights, and positions of equal key keep their input order
C17_SortedViewsStable ==
    Called("recalculate_portfolio") =>
        LET n == Len(portfolio)
            weights == [i \in 1..n |-> R(TierWeight(LastCall.answers[i]))]
        IN  /\ StableDescending(LastCall.sorted_by_return, portfolio,
                                [i \in 1..n |-> percent_return(portfolio[i])])
            /\ StableDescending(LastCall.sorted_by_pnl, portfolio,
                                [i \in 1..n |-> unrealized_pl(portfolio[i])])
            /\ \/ StableDescending(LastCall.sorted_by_risk, portfolio, weights)
               \/ StableDescending(LastCall.sorted_by_risk, portfolio, Negated(weights))

\* the two positions with 0 percent return and 0 P&L follow the third, in input order
C17_Witness ==
    /\ Called("recalculate_portfolio")
    /\ Len(portfolio) = 3
    /\ percent_return(portfolio[1]) = percent_return(portfolio[2])
    /\ LastCall.sorted_by_return = << portfolio[3], portfolio[1], portfolio[2] >>
    /\ LastCall.sorted_by_pnl = << portfolio[3], portfolio[1], portfolio[2] >>

\* the weight of the position that is j-th in view, from the answer given for it
WeightAt(view, j, pl, answers) == TierWeight(answers[FindAsset(pl, view[j].ticker)])

\* C18: sorted_by_risk holds every position once, by weight LOW 1, OPTIMAL 2, HIGH 3,
\* UNKNOWN 2: never increasing when the order preference is "HtoLrisk", never
\* decreasing for any other value of the preference
C18_RiskOrderFollowsPreference ==
    Called("recalculate_portfolio") =>
        LET view == LastCall.sorted_by_risk
            n == Len(portfolio)
        IN  /\ Len(view) = n
            /\ \A i \in 1..n : \E j \in 1..n : view[j] = portfolio[i]
            /\ \A j \in 1..(n - 1) :
                IF preferences.order = "HtoLrisk"
                THEN WeightAt(view, j, portfolio, LastCall.answers)
                        >= WeightAt(view, j + 1, portfolio, LastCall.answers)
                ELSE WeightAt(view, j, portfolio, LastCall.answers)
                        <= WeightAt(view, j + 1, portfolio, LastCall.answers)

\* under the preferences the program starts with, a LOW position comes before a HIGH one
C18_Witness ==
    /\ Called("recalculate_portfolio")
    /\ preferences = SamplePreferences
    /\ Len(portfolio) = 3
    /\ WeightAt(LastCall.sorted_by_risk, 1, portfolio, LastCall.answers) = 1
    /\ WeightAt(LastCall.sorted_by_risk, 3, portfolio, LastCall.answers) = 3

\* the gateway gave no usable price for the ticker
NoPrice(ticker, kind) == kind # "close" \/ ~RPos(LastClose(ticker))

\* the gateway gave no usable history
NoHistory(answer) == answer.kind = "error" \/ Len(answer.closes) < 2

DistinctTickers(pl) ==
    \A i \in 1..Len(pl), j \in 1..Len(pl) : pl[i].ticker = pl[j].ticker => i = j

\* C20: a confirmed transaction on a portfolio whose tickers are distinct leaves a
\* portfolio whose tickers are distinct, and one on a held ticker adds no position
C20_OnePositionPerTicker ==
    [][(ConfirmedTransaction /\ DistinctTickers(portfolio)) =>
        /\ DistinctTickers(portfolio')
        /\ Held(portfolio, LastLogged.ticker) => Len(portfolio') <= Len(portfolio)]_vars

\* a buy of the held AAPL has been applied and there are still three positions
C20_Witness ==
    /\ pc = "menu"
    /\ Len(transactions) = 3
    /\ transactions[3].type = "buy" /\ transactions[3].ticker = "AAPL"
    /\ Len(portfolio) = 3
    /\ portfolio[1].ticker = "AAPL"
    /\ portfolio[1].quantity = R(15)

\* the key store holds an encoded key
StoreHoldsKey == keyring # None /\ B64Decodable(keyring)

\* C21: no step of ensure_master_key replaces a key a store holds: an encoded key in
\* the key store is still the entry there after the step, and a key in the key file is
\* still the content of the file after the step (a run writes to a store at most once,
\* so this is the same as comparing the stores before and after each run)
C21_StoredKeyNeverReplaced ==
    [][/\ StoreHoldsKey => keyring' = keyring
       /\ IsKey(keyfile) => keyfile' = keyfile]_vars

====
